---- MODULE Spec2Model ----
(***************************************************************************)
(* Crypto news scraper (src/Crypto_api.py): the /crypto-news endpoint      *)
(* get_crypto_news and the scraper scrape_crypto_news it calls.            *)
(*                                                                         *)
(* Python strings are sequences of one-character strings, so that          *)
(* substring tests, counts, case folding, stripping and slicing are        *)
(* computed as the code computes them.  The homepage is a tag tree: a      *)
(* sequence of nodes in document order, each naming its parent (0 is the   *)
(* BeautifulSoup object itself).                                           *)
(***************************************************************************)
EXTENDS Naturals, Integers, Sequences, FiniteSets, TLC

----------------------------------------------------------------------------
(* Bounds of the model                                                     *)

\* Number of anchors in the listing-shaped homepages.
MaxAnchors == 2
\* Number of tags in the homepages that vary the tag tree.
MaxNodes == 3
\* Largest valid limit the model requests (the endpoint allows up to 20).
MaxLimit == 3
\* Length of the long failure description (longer than the slice of 200).
ErrLongLen == 205

----------------------------------------------------------------------------
(* Program constants                                                       *)

\* limit: int = Query(default=3, ge=1, le=20)
DefaultLimit == 3
LimitMin == 1
LimitMax == 20
\* url.count('/') >= 4
MinSlashes == 4
\* len(text) > 50
MinParagraphLen == 50
\* str(e)[:200]
ErrorSliceLen == 200
\* status_code=500
StatusError == 500
\* FastAPI's answer to a query parameter that fails validation
StatusInvalid == 422
StatusOk == 200

None == -1

base_url ==
    <<"h","t","t","p","s",":","/","/","c","r","y","p","t","o",".","n","e","w",
      "s">>

ExclCategory == <<"/","c","a","t","e","g","o","r","y","/">>
ExclTag == <<"/","t","a","g","/">>
ExclAuthor == <<"/","a","u","t","h","o","r","/">>
ExclFragment == <<"#">>
ExclBuyCrypto == <<"/","b","u","y","-","c","r","y","p","t","o","/">>
ExclEvents == <<"/","e","v","e","n","t","s","/">>
ExclMemeCoins == <<"/","m","e","m","e","-","c","o","i","n","s","/">>

\* ['/category/', '/tag/', '/author/', '#', '/buy-crypto/', '/events/', '/meme-coins/']
Excluded ==
    <<ExclCategory, ExclTag, ExclAuthor, ExclFragment, ExclBuyCrypto,
      ExclEvents, ExclMemeCoins>>

LatestWord == <<"l","a","t","e","s","t">>
TitleError ==
    <<"E","r","r","o","r"," ","f","e","t","c","h","i","n","g"," ","a","r","t",
      "i","c","l","e">>
ErrorPrefix == <<"E","r","r","o","r",":"," ">>
NetworkErrorPrefix ==
    <<"N","e","t","w","o","r","k"," ","e","r","r","o","r",":"," ">>
MsgNoArticles ==
    <<"C","o","u","l","d"," ","n","o","t"," ","f","i","n","d"," ","a","r","t",
      "i","c","l","e","s","."," ","W","e","b","s","i","t","e"," ","s","t",
      "r","u","c","t","u","r","e"," ","m","a","y"," ","h","a","v","e"," ",
      "c","h","a","n","g","e","d",".">>
MsgNoneScraped ==
    <<"N","o"," ","a","r","t","i","c","l","e","s"," ","w","e","r","e"," ","s",
      "c","r","a","p","e","d"," ","s","u","c","c","e","s","s","f","u","l",
      "l","y">>
MsgFailed ==
    <<"F","a","i","l","e","d"," ","t","o"," ","s","c","r","a","p","e"," ","a",
      "r","t","i","c","l","e","s","."," ","C","h","e","c","k"," ","i","f",
      " ","t","h","e"," ","w","e","b","s","i","t","e"," ","i","s"," ","a",
      "c","c","e","s","s","i","b","l","e",".">>
ParaSep == <<"\n","\n">>

----------------------------------------------------------------------------
(* Python string operations                                                *)

Min(a, b) == IF a <= b THEN a ELSE b

\* s[i:i+len(sub)] == sub
MatchesAt(s, sub, i) ==
    /\ i + Len(sub) - 1 <= Len(s)
    /\ \A k \in 1..Len(sub) : s[i + k - 1] = sub[k]

\* sub in s
Contains(s, sub) == \E i \in 1..(Len(s) + 1) : MatchesAt(s, sub, i)

\* s.startswith(sub)
StartsWith(s, sub) == MatchesAt(s, sub, 1)

\* s.count(c) for a one-character c
Count(s, c) == Cardinality({i \in DOMAIN s : s[i] = c})

UpperAlpha ==
    <<"A","B","C","D","E","F","G","H","I","J","K","L","M","N","O","P","Q","R",
      "S","T","U","V","W","X","Y","Z">>
LowerAlpha ==
    <<"a","b","c","d","e","f","g","h","i","j","k","l","m","n","o","p","q","r",
      "s","t","u","v","w","x","y","z">>

LowerChar(c) ==
    IF \E k \in DOMAIN UpperAlpha : UpperAlpha[k] = c
    THEN LowerAlpha[CHOOSE k \in DOMAIN UpperAlpha : UpperAlpha[k] = c]
    ELSE c

\* s.lower()
Lower(s) == [i \in DOMAIN s |-> LowerChar(s[i])]

Whitespace == {" ", "\n", "\t", "\r"}

RECURSIVE LStrip(_)
LStrip(s) ==
    IF s # <<>> /\ Head(s) \in Whitespace THEN LStrip(Tail(s)) ELSE s

RECURSIVE RStrip(_)
RStrip(s) ==
    IF s # <<>> /\ s[Len(s)] \in Whitespace
    THEN RStrip(SubSeq(s, 1, Len(s) - 1))
    ELSE s

\* s.strip()
Strip(s) == RStrip(LStrip(s))

\* s[:n]
Slice(s, n) == SubSeq(s, 1, Min(n, Len(s)))

\* sep.join(parts)
RECURSIVE Join(_, _)
Join(sep, parts) ==
    IF parts = <<>> THEN <<>>
    ELSE IF Len(parts) = 1 THEN parts[1]
    ELSE parts[1] \o sep \o Join(sep, Tail(parts))

\* a string of n copies of the character c
Repeat(c, n) == [k \in 1..n |-> c]

----------------------------------------------------------------------------
(* The tag tree of a page (BeautifulSoup)                                  *)

\* A tag: its name, the text it holds itself (placed before its children),
\* its class attribute ("" when it has none), its href attribute when it has
\* one, and its parent's position (0: the BeautifulSoup object).
MkTag(tag, text, class, has_href, href, parent) ==
    [tag |-> tag, text |-> text, class |-> class, has_href |-> has_href,
     href |-> href, parent |-> parent]

MinOf(S) == CHOOSE x \in S : \A y \in S : x <= y

\* i lies inside a (a = 0: every tag lies inside the BeautifulSoup object)
RECURSIVE IsUnder(_, _, _)
IsUnder(d, i, a) ==
    IF i = 0 THEN FALSE
    ELSE d[i].parent = a \/ IsUnder(d, d[i].parent, a)

RECURSIVE TextFrom(_, _, _)
TextFrom(d, a, j) ==
    IF j > Len(d) THEN <<>>
    ELSE (IF j = a \/ IsUnder(d, j, a) THEN d[j].text ELSE <<>>)
         \o TextFrom(d, a, j + 1)

\* tag.get_text(): the text of the tag and of everything inside it
GetText(d, a) == TextFrom(d, a, 1)

\* Tag.__bool__ is always True: only None is falsy
Truthy(section) == section # None

\* Strategy 1: the parent of the first h1/h2/h3/div whose text is "latest"
Strategy1(d) ==
    LET hits == {i \in 1..Len(d) :
                    /\ d[i].tag \in {"h1", "h2", "h3", "div"}
                    /\ Lower(Strip(GetText(d, i))) = LatestWord}
    IN  IF hits = {} THEN None ELSE d[MinOf(hits)].parent

\* Strategy 2: the first section/div whose class contains "latest"
Strategy2(d) ==
    LET hits == {i \in 1..Len(d) :
                    /\ d[i].tag \in {"section", "div"}
                    /\ d[i].class # <<>>
                    /\ Contains(Lower(d[i].class), LatestWord)}
    IN  IF hits = {} THEN None ELSE MinOf(hits)

\* Strategy 3: the first h1/h2/h3 whose text contains "latest"; the region is
\* the first section/div/article after it (find_next), None when there is none
Strategy3(d) ==
    LET heads == {i \in 1..Len(d) :
                    /\ d[i].tag \in {"h1", "h2", "h3"}
                    /\ Contains(Lower(GetText(d, i)), LatestWord)}
    IN  IF heads = {} THEN None
        ELSE LET elem == MinOf(heads)
                 nxt == {j \in (elem + 1)..Len(d) :
                            d[j].tag \in {"section", "div", "article"}}
             IN  IF nxt = {} THEN None ELSE MinOf(nxt)

\* latest_section.find_all('a', href=True): the href values, in document order
RECURSIVE LinksFrom(_, _, _)
LinksFrom(d, section, j) ==
    IF j > Len(d) THEN <<>>
    ELSE (IF IsUnder(d, j, section) /\ d[j].tag = "a" /\ d[j].has_href
          THEN <<d[j].href>> ELSE <<>>)
         \o LinksFrom(d, section, j + 1)

FindLinks(d, section) == LinksFrom(d, section, 1)

----------------------------------------------------------------------------
(* The URL filter of the anchor scan                                       *)

Range(s) == {s[k] : k \in DOMAIN s}

\* if url.startswith('/'): url = base_url + url
BuildUrl(href) == IF StartsWith(href, <<"/">>) THEN base_url \o href ELSE href

InBase(url) == Contains(url, base_url)

DeepEnough(url) == Count(url, "/") >= MinSlashes

\* a filter without line 97: no URL counts as already accepted
AlwaysNew(url, accepted) == TRUE

NotSeen(url, accepted) == url \notin Range(accepted)

HasExcluded(url) == \E k \in DOMAIN Excluded : Contains(url, Excluded[k])

\* the condition of lines 95-99
Accepts(url, accepted) ==
    /\ InBase(url)
    /\ DeepEnough(url)
    /\ NotSeen(url, accepted)
    /\ ~HasExcluded(url)

\* a break that comes one accepted URL too late
LimitExceeded(accepted, lim) == Len(accepted) = lim + 1

\* the break of lines 103-104
LimitReached(accepted, lim) == Len(accepted) = lim

----------------------------------------------------------------------------
(* Field extraction from one article page (lines 121-158)                  *)

\* An article page, as the four searches of the extractor see it: the texts
\* of its h1 tags, the paragraph texts of each of its article tags, the
\* content attribute of each meta[name=description] ("" when absent), and the
\* datetime attribute ("" when absent) and text of each time tag.
MkPage(h1s, article_tags, metas, times) ==
    [h1s |-> h1s, article_tags |-> article_tags, metas |-> metas,
     times |-> times]

\* h1 = soup.find('h1'); title = h1.get_text(strip=True)
ExtractTitle(page) ==
    IF page.h1s = <<>> THEN <<>> ELSE Strip(page.h1s[1])

RECURSIVE LongParagraphs(_)
LongParagraphs(ps) ==
    IF ps = <<>> THEN <<>>
    ELSE (IF Len(Strip(Head(ps))) > MinParagraphLen
          THEN <<Strip(Head(ps))>> ELSE <<>>)
         \o LongParagraphs(Tail(ps))

\* the paragraphs of the first article tag longer than 50, joined by '\n\n'
ExtractContent(page) ==
    IF page.article_tags = <<>> THEN <<>>
    ELSE Join(ParaSep, LongParagraphs(page.article_tags[1]))

\* if meta_desc and meta_desc.get('content'): summary = meta_desc['content']
ExtractSummary(page) ==
    IF page.metas = <<>> \/ page.metas[1] = <<>> THEN <<>>
    ELSE page.metas[1]

\* date = time_tag.get('datetime', '') or time_tag.get_text(strip=True)
ExtractDate(page) ==
    IF page.times = <<>> THEN <<>>
    ELSE IF page.times[1].datetime # <<>> THEN page.times[1].datetime
    ELSE Strip(page.times[1].text)

\* the record of lines 151-158
ArticleRecord(u, page, t) ==
    [url |-> u, title |-> ExtractTitle(page), summary |-> ExtractSummary(page),
     content |-> ExtractContent(page), date |-> ExtractDate(page),
     scraped_at |-> t]

\* str(e), the slice forgotten
ErrorTextWhole(e) == e

\* str(e)[:200]
ErrorText(e) == Slice(e, ErrorSliceLen)

\* the record of lines 164-171
ErrorRecord(u, e, t) ==
    [url |-> u, title |-> TitleError, summary |-> <<>>,
     content |-> ErrorPrefix \o ErrorText(e), date |-> <<>>,
     scraped_at |-> t]

DigitChars == <<"0","1","2","3","4","5","6","7","8","9">>

\* str(n)
RECURSIVE IntToStr(_)
IntToStr(n) ==
    IF n < 10 THEN <<DigitChars[n + 1]>>
    ELSE IntToStr(n \div 10) \o <<DigitChars[(n % 10) + 1]>>

MsgScrapedPrefix ==
    <<"S","u","c","c","e","s","s","f","u","l","l","y"," ","s","c","r","a","p",
      "e","d"," ">>
MsgScrapedSuffix == <<" ","a","r","t","i","c","l","e","(","s",")">>

\* the envelope of lines 225-231
SuccessResponse(arts, t) ==
    [status |-> StatusOk, success |-> TRUE, articles |-> arts,
     count |-> Len(arts), scraped_at |-> t,
     message |-> MsgScrapedPrefix \o IntToStr(Len(arts)) \o MsgScrapedSuffix]

\* the HTTPException of lines 234-241
FailureResponse(e) ==
    [status |-> StatusError, success |-> FALSE, error |-> e,
     message |-> MsgFailed]

\* the answer to a limit outside 1..20 (lines 205-210): the scraper never runs
InvalidResponse == [status |-> StatusInvalid, success |-> FALSE]

NoResponse == [status |-> 0]

----------------------------------------------------------------------------
(* Inputs: homepages, article pages, failures                              *)

HrefA1 == <<"/","n","e","w","s","/","a","1">>
HrefA2 == <<"/","n","e","w","s","/","a","2">>
HrefAbsA1 ==
    <<"h","t","t","p","s",":","/","/","c","r","y","p","t","o",".","n","e","w",
      "s","/","n","e","w","s","/","a","1">>
HrefShallow == <<"/","n","e","w","s">>
HrefRelative == <<"n","e","w","s","/","a","/","b","/","c","/","d">>
HrefProtoRel == <<"/","/","e","v","i","l",".","i","o","/","a">>
HrefOtherHost ==
    <<"h","t","t","p","s",":","/","/","e","v","i","l",".","i","o","/","?","u",
      "=","h","t","t","p","s",":","/","/","c","r","y","p","t","o",".","n",
      "e","w","s","/","a">>
HrefCategory == <<"/","c","a","t","e","g","o","r","y","/","b","t","c">>
HrefTag == <<"/","t","a","g","/","b","t","c">>
HrefAuthor == <<"/","a","u","t","h","o","r","/","j","o","e">>
HrefFragment == <<"/","n","e","w","s","/","a","1","#","t","o","p">>
HrefBuyCrypto ==
    <<"/","b","u","y","-","c","r","y","p","t","o","/","b","t","c">>
HrefEvents == <<"/","e","v","e","n","t","s","/","e","1">>
HrefMemeCoins ==
    <<"/","m","e","m","e","-","c","o","i","n","s","/","m","1">>
TextLatest == <<" ","L","a","t","e","s","t"," ">>
TextLatestNews == <<"L","a","t","e","s","t"," ","n","e","w","s">>
TextOther == <<"B","T","C">>
ClassLatest == <<"L","a","t","e","s","t","-","p","o","s","t","s">>
ErrTimeout ==
    <<"R","e","a","d"," ","t","i","m","e","d"," ","o","u","t","."," ","(","r",
      "e","a","d"," ","t","i","m","e","o","u","t","=","1","5",")">>
TitleBitcoin ==
    <<"B","i","t","c","o","i","n"," ","H","i","t","s"," ","$","1","0","0","K">>
TitleEth == <<"E","T","H">>
ParaShort == <<"A","d">>
MetaSummary == <<"S","u","m">>
DateAttr == <<"2","0","2","5","-","0","1","-","0","1">>
DateText == <<"J","a","n"," ","1">>


HrefPool ==
    {HrefA1, HrefA2, HrefAbsA1, HrefShallow, HrefRelative, HrefProtoRel,
     HrefOtherHost, HrefCategory, HrefTag, HrefAuthor, HrefFragment,
     HrefBuyCrypto, HrefEvents, HrefMemeCoins}

RECURSIVE SeqsUpTo(_, _)
SeqsUpTo(S, n) ==
    IF n = 0 THEN {<<>>}
    ELSE LET shorter == SeqsUpTo(S, n - 1)
         IN  shorter \cup {Append(s, x) : s \in shorter, x \in S}

Anchor(href, parent) == MkTag("a", TextOther, <<>>, TRUE, href, parent)

\* A homepage shaped like the site's: <div class="Latest-posts"> holding the
\* anchors hs in this order.
ListingDoc(hs) ==
    <<MkTag("div", <<>>, ClassLatest, FALSE, <<>>, 0)>>
    \o [k \in 1..Len(hs) |-> Anchor(hs[k], 1)]

DocsListing == {ListingDoc(hs) : hs \in SeqsUpTo(HrefPool, MaxAnchors)}

\* The tags the tree-shaped homepages are made of (the parent is set by Trees).
TagKinds ==
    {MkTag("h2", TextLatest, <<>>, FALSE, <<>>, 0),
     MkTag("h2", TextLatestNews, <<>>, FALSE, <<>>, 0),
     MkTag("div", <<>>, <<>>, FALSE, <<>>, 0),
     MkTag("section", <<>>, ClassLatest, FALSE, <<>>, 0),
     MkTag("article", <<>>, <<>>, FALSE, <<>>, 0),
     Anchor(HrefA1, 0)}

RECURSIVE Ancestors(_, _)
Ancestors(d, i) == IF i = 0 THEN {0} ELSE {i} \cup Ancestors(d, d[i].parent)

\* where the next tag in document order can be attached
OpenTags(d) == IF d = <<>> THEN {0} ELSE Ancestors(d, Len(d))

\* every tag tree of exactly n tags
RECURSIVE Trees(_)
Trees(n) ==
    IF n = 0 THEN {<<>>}
    ELSE {Append(d, [k EXCEPT !.parent = p]) :
            d \in Trees(n - 1), k \in TagKinds, p \in 0..(n - 1)}

WellFormed(d) ==
    \A j \in 1..Len(d) : d[j].parent \in OpenTags(SubSeq(d, 1, j - 1))

DocsTree ==
    UNION {{d \in Trees(n) : WellFormed(d)} : n \in 0..MaxNodes}

ErrLong == Repeat("E", ErrLongLen)

\* str(e) of the exception a fetch or a parse raises
ErrPool == {ErrTimeout, ErrLong}

PageHeadline ==
    MkPage(<<TitleBitcoin>>, <<>>, <<>>,
           <<[datetime |-> <<>>, text |-> DateText]>>)

PageFull ==
    MkPage(<<<<" ">> \o TitleEth, TitleBitcoin>>,
           << <<ParaShort,
                Repeat("w", MinParagraphLen),
                Repeat("x", MinParagraphLen + 1),
                <<" ">> \o Repeat("y", MinParagraphLen + 2)>>,
              <<Repeat("z", MinParagraphLen + 1)>> >>,
           <<MetaSummary>>,
           <<[datetime |-> DateAttr, text |-> DateText]>>)

PagePool == {PageHeadline, PageFull}

\* the limit values requests carry: valid ones, and one on each side of 1..20
LimitInputs == 0..MaxLimit \cup {LimitMax + 1}

----------------------------------------------------------------------------
(* State                                                                   *)

VARIABLES
    doc,             \* the homepage the site serves (its tag tree)
    limit,           \* the request's limit parameter
    pc,              \* where the request is in get_crypto_news
    latest_section,  \* the region: a position in doc, or None
    links,           \* latest_section.find_all('a', href=True)
    link_i,          \* position of the scan in links
    examined,        \* the hrefs the scan loop has taken from links
    article_urls,    \* the accepted URLs
    article_i,       \* position of the article loop in article_urls
    articles,        \* the records appended so far
    fetches,         \* every requests.get issued, in order
    homepage,        \* how the homepage fetch ended: "pending", "ok", "failed"
    outcomes,        \* per article turn: the exception text, or <<>> for none
    now,             \* the clock read by datetime.now()
    response         \* what the endpoint answered

vars ==
    <<doc, limit, pc, latest_section, links, link_i, examined, article_urls,
      article_i, articles, fetches, homepage, outcomes, now, response>>

Start ==
    /\ pc = "request"
    /\ latest_section = None
    /\ links = <<>>
    /\ link_i = 0
    /\ examined = <<>>
    /\ article_urls = <<>>
    /\ article_i = 0
    /\ articles = <<>>
    /\ fetches = <<>>
    /\ homepage = "pending"
    /\ outcomes = <<>>
    /\ now = 0
    /\ response = NoResponse

Init ==
    /\ \/ doc \in DocsListing /\ limit \in LimitInputs
       \/ doc \in DocsTree /\ limit = DefaultLimit
    /\ Start

----------------------------------------------------------------------------
(* get_crypto_news and scrape_crypto_news, step by step                    *)

\* Query(ge=1, le=20): a limit outside the range is answered without a scrape
ValidLimit(n) == LimitMin <= n /\ n <= LimitMax

Validate ==
    /\ pc = "request"
    /\ IF ValidLimit(limit)
       THEN pc' = "homepage" /\ UNCHANGED response
       ELSE pc' = "done" /\ response' = InvalidResponse
    /\ UNCHANGED <<doc, limit, latest_section, links, link_i, examined,
                   article_urls, article_i, articles, fetches, homepage,
                   outcomes, now>>

\* a request that is sent again after the first attempt
RequestedTwice(log, u) == Append(Append(log, u), u)

\* requests.get(url, headers=headers, timeout=15): one request is issued
Requested(log, u) == Append(log, u)

\* line 62-63: the homepage arrives
FetchHomepage ==
    /\ pc = "homepage"
    /\ fetches' = Requested(fetches, base_url)
    /\ homepage' = "ok"
    /\ now' = now + 1
    /\ pc' = "strategy1"
    /\ UNCHANGED <<doc, limit, latest_section, links, link_i, examined,
                   article_urls, article_i, articles, outcomes, response>>

\* line 62 raises: lines 106-107 re-raise, lines 233-241 answer
FetchHomepageFails ==
    /\ pc = "homepage"
    /\ \E e \in ErrPool :
          response' = FailureResponse(NetworkErrorPrefix \o e)
    /\ fetches' = Requested(fetches, base_url)
    /\ homepage' = "failed"
    /\ now' = now + 1
    /\ pc' = "done"
    /\ UNCHANGED <<doc, limit, latest_section, links, link_i, examined,
                   article_urls, article_i, articles, outcomes>>

\* lines 69-72
AfterStrategy1(d) == Strategy1(d)

\* strategy 2 without the guard of line 75: it overrides strategy 1
Strategy2Overrides(d, section) ==
    IF Truthy(Strategy2(d)) THEN Strategy2(d) ELSE section

\* lines 75-76
AfterStrategy2(d, section) ==
    IF ~Truthy(section) THEN Strategy2(d) ELSE section

\* lines 79-83
AfterStrategy3(d, section) ==
    IF ~Truthy(section) THEN Strategy3(d) ELSE section

TryStrategy1 ==
    /\ pc = "strategy1"
    /\ latest_section' = AfterStrategy1(doc)
    /\ pc' = "strategy2"
    /\ UNCHANGED <<doc, limit, links, link_i, examined, article_urls,
                   article_i, articles, fetches, homepage, outcomes, now,
                   response>>

TryStrategy2 ==
    /\ pc = "strategy2"
    /\ latest_section' = AfterStrategy2(doc, latest_section)
    /\ pc' = "strategy3"
    /\ UNCHANGED <<doc, limit, links, link_i, examined, article_urls,
                   article_i, articles, fetches, homepage, outcomes, now,
                   response>>

TryStrategy3 ==
    /\ pc = "strategy3"
    /\ latest_section' = AfterStrategy3(doc, latest_section)
    /\ pc' = "links"
    /\ UNCHANGED <<doc, limit, links, link_i, examined, article_urls,
                   article_i, articles, fetches, homepage, outcomes, now,
                   response>>

\* lines 86-87: the anchors of the region, when there is a region
CollectLinks ==
    /\ pc = "links"
    /\ IF Truthy(latest_section)
       THEN /\ links' = FindLinks(doc, latest_section)
            /\ link_i' = 1
            /\ pc' = "scan"
       ELSE /\ pc' = "check"
            /\ UNCHANGED <<links, link_i>>
    /\ UNCHANGED <<doc, limit, latest_section, examined, article_urls,
                   article_i, articles, fetches, homepage, outcomes, now,
                   response>>

\* lines 87-104: one turn of the anchor loop, or its end
ScanLink ==
    /\ pc = "scan"
    /\ IF link_i > Len(links)
       THEN /\ pc' = "check"
            /\ UNCHANGED <<link_i, examined, article_urls>>
       ELSE LET url == BuildUrl(links[link_i])
            IN  /\ examined' = Append(examined, links[link_i])
                /\ IF Accepts(url, article_urls)
                   THEN /\ article_urls' = Append(article_urls, url)
                        /\ IF LimitReached(article_urls', limit)
                           THEN pc' = "check" /\ UNCHANGED link_i
                           ELSE pc' = "scan" /\ link_i' = link_i + 1
                   ELSE /\ UNCHANGED article_urls
                        /\ pc' = "scan"
                        /\ link_i' = link_i + 1
    /\ UNCHANGED <<doc, limit, latest_section, links, article_i, articles,
                   fetches, homepage, outcomes, now, response>>

\* a scraper without the check of line 110
NeverNothing == FALSE

\* a check that takes limit for a requirement
FewerThanLimit == Len(article_urls) < limit

\* line 110: if not article_urls
NothingFound == article_urls = <<>>

\* lines 110-114, and lines 233-241 when line 111 raises
CheckFound ==
    /\ pc = "check"
    /\ IF NothingFound
       THEN /\ response' = FailureResponse(MsgNoArticles)
            /\ pc' = "done"
            /\ UNCHANGED article_i
       ELSE /\ pc' = "articles"
            /\ article_i' = 1
            /\ UNCHANGED response
    /\ UNCHANGED <<doc, limit, latest_section, links, link_i, examined,
                   article_urls, articles, fetches, homepage, outcomes, now>>

\* line 160: articles.append(article)
AppendArticle(arts, u, page, t) == Append(arts, ArticleRecord(u, page, t))

\* an except clause that only logs: the failed article leaves no record
DropError(arts, u, e, t) == arts

\* lines 162-171: articles.append({... the error record ...})
AppendError(arts, u, e, t) == Append(arts, ErrorRecord(u, e, t))

\* an except clause that leaves the loop
AbortAfterFailure == Len(article_urls) + 1

\* the except clause falls through to the next turn of the for loop
NextAfterFailure == article_i + 1

\* lines 117-160: the article page arrives and is parsed
ScrapeArticle ==
    /\ pc = "articles"
    /\ article_i <= Len(article_urls)
    /\ \E page \in PagePool :
          articles' =
              AppendArticle(articles, article_urls[article_i], page, now + 1)
    /\ outcomes' = Append(outcomes, <<>>)
    /\ fetches' = Requested(fetches, article_urls[article_i])
    /\ now' = now + 1
    /\ article_i' = article_i + 1
    /\ UNCHANGED <<doc, limit, pc, latest_section, links, link_i, examined,
                   article_urls, homepage, response>>

\* lines 117-119 raise: lines 162-171 append the error record
ScrapeArticleFails ==
    /\ pc = "articles"
    /\ article_i <= Len(article_urls)
    /\ \E e \in ErrPool :
          /\ articles' =
                AppendError(articles, article_urls[article_i], e, now + 1)
          /\ outcomes' = Append(outcomes, e)
    /\ fetches' = Requested(fetches, article_urls[article_i])
    /\ now' = now + 1
    /\ article_i' = NextAfterFailure
    /\ UNCHANGED <<doc, limit, pc, latest_section, links, link_i, examined,
                   article_urls, homepage, response>>

\* lines 174-177 and 225-231 (or 233-241 when line 175 raises)
Finish ==
    /\ pc = "articles"
    /\ article_i > Len(article_urls)
    /\ IF articles = <<>>
       THEN response' = FailureResponse(MsgNoneScraped)
       ELSE response' = SuccessResponse(articles, now)
    /\ pc' = "done"
    /\ UNCHANGED <<doc, limit, latest_section, links, link_i, examined,
                   article_urls, article_i, articles, fetches, homepage,
                   outcomes, now>>

Next ==
    \/ Validate
    \/ FetchHomepage
    \/ FetchHomepageFails
    \/ TryStrategy1
    \/ TryStrategy2
    \/ TryStrategy3
    \/ CollectLinks
    \/ ScanLink
    \/ CheckFound
    \/ ScrapeArticle
    \/ ScrapeArticleFails
    \/ Finish

Spec == Init /\ [][Next]_vars

----------------------------------------------------------------------------
(* Properties                                                              *)

NoDuplicates(q) == \A a, b \in DOMAIN q : a # b => q[a] # q[b]

Urls(arts) == [k \in DOMAIN arts |-> arts[k].url]

\* a URL the filter lets through when it is met for the first time
Qualifying(url) == InBase(url) /\ DeepEnough(url) /\ ~HasExcluded(url)

\* the hrefs of the model's homepages whose URL qualifies
QualifyingHrefs == {h \in HrefPool : Qualifying(BuildUrl(h))}

\* the distinct qualifying URLs of the hrefs hs, in the order of their first
\* qualifying anchor
RECURSIVE DistinctQualifying(_, _)
DistinctQualifying(hs, acc) ==
    IF hs = <<>> THEN acc
    ELSE LET u == BuildUrl(Head(hs))
         IN  DistinctQualifying(Tail(hs),
                 IF Head(hs) \in QualifyingHrefs /\ u \notin Range(acc)
                 THEN Append(acc, u) ELSE acc)

C1_Counts ==
    /\ pc = "articles" =>
          /\ Len(articles) = article_i - 1
          /\ Urls(articles) = SubSeq(article_urls, 1, Len(articles))
    /\ (pc = "done" /\ article_urls # <<>>) =>
          /\ response.status = StatusOk
          /\ Len(response.articles) = Len(article_urls)
          /\ Urls(response.articles) = article_urls
          /\ response.articles = articles

C1_Kept ==
    \A k \in DOMAIN articles :
        k \in DOMAIN articles' /\ articles'[k] = articles[k]

\* C1: once discovery has accepted u1..uk, every turn of the article loop
\* appends exactly one record, the i-th record carries ui whether its fetch
\* succeeded or failed, records already appended are never changed, and the
\* envelope returns exactly these k records.
C1_OneRecordPerUrl == []C1_Counts /\ [][C1_Kept]_vars

\* a batch of two whose first article failed and whose second succeeded
C1_Witness ==
    /\ pc = "done"
    /\ Len(article_urls) = 2
    /\ response.status = StatusOk
    /\ outcomes[1] # <<>>
    /\ outcomes[2] = <<>>
    /\ response.articles[2].title # TitleError

C2_Banned ==
    {ExclCategory, ExclTag, ExclAuthor, ExclFragment, ExclBuyCrypto,
     ExclEvents, ExclMemeCoins}

\* C2: at every point of the scan and in the result, the accepted URLs hold
\* no duplicate, number at most limit, and none contains /category/, /tag/,
\* /author/, #, /buy-crypto/, /events/ or /meme-coins/.
C2_AcceptedListInvariant ==
    /\ NoDuplicates(article_urls)
    /\ ValidLimit(limit) => Len(article_urls) <= limit
    /\ pc \in {"scan", "check"} =>
          \A k \in DOMAIN article_urls :
              \A x \in C2_Banned : ~Contains(article_urls[k], x)
    /\ (pc = "done" /\ response.status = StatusOk) =>
          Urls(response.articles) = article_urls

\* the scan met the same article twice (relative, then absolute) and kept one
C2_Witness ==
    /\ pc = "check"
    /\ examined = <<HrefA1, HrefAbsA1>>
    /\ article_urls = <<base_url \o HrefA1>>

C3_ExpectedContent(e) ==
    ErrorPrefix
    \o SubSeq(e, 1, IF Len(e) > ErrorSliceLen THEN ErrorSliceLen ELSE Len(e))

\* C3: the record of an article whose fetch or parse raised has the title
\* "Error fetching article", the content "Error: " plus the first 200
\* characters of the failure text, empty summary and date, its url and a
\* scraped_at; the batch still answers with the success envelope.
C3_ErrorRecord ==
    /\ \A k \in DOMAIN outcomes :
          outcomes[k] # <<>> =>
             /\ k \in DOMAIN articles
             /\ articles[k].title = TitleError
             /\ articles[k].content = C3_ExpectedContent(outcomes[k])
             /\ articles[k].summary = <<>>
             /\ articles[k].date = <<>>
             /\ articles[k].url = article_urls[k]
             /\ articles[k].url # <<>>
             /\ articles[k].scraped_at > 0
    /\ (pc = "done" /\ outcomes # <<>>) =>
          /\ response.status = StatusOk
          /\ response.success
          /\ response.articles = articles

\* an article failed with a description longer than 200 characters
C3_Witness ==
    /\ pc = "done"
    /\ \E k \in DOMAIN outcomes :
          /\ Len(outcomes[k]) > ErrorSliceLen
          /\ Len(articles[k].content) = Len(ErrorPrefix) + ErrorSliceLen

C4_Cause ==
    \/ homepage = "failed"
    \/ homepage = "ok" /\ ~Truthy(latest_section)
    \/ homepage = "ok" /\ Truthy(latest_section) /\ article_urls = <<>>

C5_OrderAndShortCircuit ==
    /\ pc = "scan" =>
          /\ examined = SubSeq(links, 1, link_i - 1)
          /\ article_urls = DistinctQualifying(examined, <<>>)
          /\ Len(article_urls) < limit
    /\ (pc = "check" /\ Truthy(latest_section)) =>
          LET D == DistinctQualifying(links, <<>>)
              n == Len(examined)
          IN  /\ article_urls = SubSeq(D, 1, Min(limit, Len(D)))
              /\ examined = SubSeq(links, 1, n)
              /\ IF Len(D) >= limit
                 THEN /\ n >= 1
                      /\ BuildUrl(examined[n]) = article_urls[limit]
                      /\ Len(DistinctQualifying(SubSeq(examined, 1, n - 1),
                                                <<>>)) = limit - 1
                 ELSE examined = links

\* the limit was reached with an anchor left unexamined
C5_Witness ==
    /\ pc = "check"
    /\ Len(article_urls) = limit
    /\ Len(examined) < Len(links)
    /\ links[Len(links)] \in QualifyingHrefs

C6_Exact(d) ==
    {i \in 1..Len(d) : /\ d[i].tag \in {"h1", "h2", "h3", "div"}
                       /\ Lower(Strip(GetText(d, i))) = LatestWord}

C6_Class(d) ==
    {i \in 1..Len(d) : /\ d[i].tag \in {"section", "div"}
                       /\ Contains(Lower(d[i].class), LatestWord)}

C6_Heading(d) ==
    {i \in 1..Len(d) : /\ d[i].tag \in {"h1", "h2", "h3"}
                       /\ Contains(Lower(GetText(d, i)), LatestWord)}

C6_Region1(d) ==
    LET hits == C6_Exact(d)
    IN  IF hits = {} THEN None ELSE d[MinOf(hits)].parent

C6_Region2(d) ==
    LET hits == C6_Class(d)
    IN  IF hits = {} THEN None ELSE MinOf(hits)

C6_Region3(d) ==
    LET heads == C6_Heading(d)
    IN  IF heads = {} THEN None
        ELSE LET after == {j \in 1..Len(d) :
                              /\ j > MinOf(heads)
                              /\ d[j].tag \in {"section", "div", "article"}}
             IN  IF after = {} THEN None ELSE MinOf(after)

C6_First(d) ==
    LET r1 == C6_Region1(d)
    IN  IF r1 # None THEN r1
        ELSE LET r2 == C6_Region2(d)
             IN  IF r2 # None THEN r2 ELSE C6_Region3(d)

\* C6: the region is that of the first strategy, in the order 1, 2, 3, that
\* yields one: the parent of the first exact "latest" heading whatever the
\* other strategies would find, else the first section/div whose class
\* contains "latest" whatever strategy 3 would find, else the first
\* section/div/article after the first heading containing "latest".
C6_StrategyOrder ==
    /\ pc = "strategy2" => latest_section = C6_Region1(doc)
    /\ pc = "strategy3" =>
          LET r1 == C6_Region1(doc)
          IN  latest_section = (IF r1 # None THEN r1 ELSE C6_Region2(doc))
    /\ pc \in {"links", "scan"} => latest_section = C6_First(doc)

\* strategy 1 won although strategies 2 and 3 each found another region
C6_Witness ==
    /\ pc = "links"
    /\ C6_Region1(doc) # None
    /\ C6_Region2(doc) # None
    /\ C6_Region3(doc) # None
    /\ C6_Region2(doc) # C6_Region1(doc)
    /\ C6_Region3(doc) # C6_Region1(doc)
    /\ latest_section = C6_Region1(doc)

C7_Absolute(url) ==
    \/ StartsWith(url, <<"h","t","t","p","s",":","/","/">>)
    \/ StartsWith(url, <<"h","t","t","p",":","/","/">>)

C7_OfOrigin(url) ==
    \/ url = base_url
    \/ \E c \in {"/", "?", "#"} : StartsWith(url, base_url \o <<c>>)

\* C7: every accepted URL is absolute and belongs to the origin
\* https://crypto.news.
C7_SameOrigin ==
    \A k \in DOMAIN article_urls :
        C7_Absolute(article_urls[k]) /\ C7_OfOrigin(article_urls[k])

\* C8: the requests issued are the homepage, once and first, then the
\* accepted URLs, once each and in order; a request for the next URL is
\* issued only when the record of the previous one is appended, a failure
\* is recorded once, and the loop ends only when every URL was requested.
C8_SequentialNoRetry ==
    /\ Len(fetches) <= 1 + Len(article_urls)
    /\ fetches = SubSeq(<<base_url>> \o article_urls, 1, Len(fetches))
    /\ NoDuplicates(fetches)
    /\ (homepage = "pending") <=> (fetches = <<>>)
    /\ pc \in {"articles", "done"} =>
          /\ Len(outcomes) = Len(articles)
          /\ homepage = "ok" => Len(fetches) = 1 + Len(articles)
    /\ (pc = "done" /\ article_urls # <<>>) =>
          fetches = <<base_url>> \o article_urls

\* three requests in all; the first article failed and the loop went on
C8_Witness ==
    /\ pc = "done"
    /\ Len(fetches) = 3
    /\ outcomes[1] # <<>>
    /\ Len(articles) = 2

\* C9: when the region holds m distinct qualifying URLs with 1 <= m < limit,
\* discovery accepts exactly those m in document order and the answer is the
\* success envelope with count = m.
C9_LimitIsUpperBound ==
    (pc = "done" /\ homepage = "ok" /\ Truthy(latest_section)) =>
        LET D == DistinctQualifying(links, <<>>)
        IN  (1 <= Len(D) /\ Len(D) < limit) =>
               /\ article_urls = D
               /\ response.status = StatusOk
               /\ response.success
               /\ response.count = Len(D)
               /\ Urls(response.articles) = D

\* one qualifying URL among two anchors, requested with limit 3
C9_Witness ==
    /\ pc = "done"
    /\ limit = DefaultLimit
    /\ Len(links) = 2
    /\ Len(DistinctQualifying(links, <<>>)) = 1
    /\ response.status = StatusOk
    /\ response.count = 1

\* C10: the check of line 174 never fires: when the article loop ends the
\* list holds between 1 and limit records, and every run that passed the
\* discovery check can go on until it answers with a success envelope whose
\* count is the number of its articles, between 1 and limit.
C10_EmptyResultUnreachable ==
    /\ (pc = "done" /\ response.status = StatusError) =>
          response.error # MsgNoneScraped
    /\ pc = "articles" =>
          /\ ENABLED Next
          /\ article_i > Len(article_urls) =>
                (1 <= Len(articles) /\ Len(articles) <= limit)
    /\ (pc = "done" /\ homepage = "ok" /\ article_urls # <<>>) =>
          /\ response.status = StatusOk
          /\ response.success
          /\ response.count = Len(response.articles)
          /\ 1 <= response.count
          /\ response.count <= limit

\* every article of a batch of two failed, and the answer is still a success
C10_Witness ==
    /\ pc = "done"
    /\ Len(outcomes) = 2
    /\ \A k \in DOMAIN outcomes : outcomes[k] # <<>>
    /\ response.status = StatusOk
    /\ response.count = 2

====
